---- MODULE Spec2Model ----
(***************************************************************************)
(* Peer2PeerConnector: the signalling server of internal/server/server.go, *)
(* the Room entity of internal/room and the response frames.              *)
(*                                                                         *)
(* Every websocket connection runs HandleWebSocketConnection; every frame  *)
(* it reads is handled by its own goroutine (go handleMessage).  A step of *)
(* the model is one access to the shared state (the clients map, the rooms *)
(* map, a Room's Clients slice, the mutex mu) or one WriteJSON.            *)
(*                                                                         *)
(* Ids are strings in the program; here they are naturals.  shortuuid.New  *)
(* is a counter that never repeats; the ids a client may type into a frame *)
(* are R1, Ghost and the ids the server has handed out.                    *)
(***************************************************************************)
EXTENDS Integers, Sequences, FiniteSets, TLC

\* ---------------------------------------------------------------- bounds
NumConns == 2          \* websocket connections that may be opened
MaxFrames == 2         \* frames read from all connections together, in Spec
MaxRoomFrames == 3     \* frames read, in SpecRoom
MaxRelay == 2          \* frames read, in SpecRelay
MaxConnect == 2        \* frames read, in SpecConnect
MaxCreate == 3         \* frames read, in SpecCreate
MaxLive == 2           \* frames read, in SpecLive

\* ------------------------------------------------------------ vocabulary
None == 0              \* nil pointer, free mutex, no value
R1 == 100              \* a room id typed in by clients
Ghost == 99            \* an id that names no client and no room

Conns == 1..NumConns
\* the goroutines go handleMessage may start, whichever specification runs
Largest(S) == CHOOSE x \in S : \A y \in S : y <= x
Handlers == 1..Largest({MaxFrames, MaxRoomFrames, MaxRelay, MaxConnect, MaxCreate,
                        MaxLive})

RoomTypes == {"create_room", "join_room", "leave_room", "end_room"}
RelayTypes == {"offer", "answer", "candidate", "message"}

VARIABLES
    clients,    \* the clients map: client id -> connection
    rooms,      \* the rooms map: room id -> *Room (an index of heap)
    heap,       \* the Room objects ever allocated, by address
    mu,         \* the mutex: None, a handler (h > 0) or a connection (-i)
    uuid,       \* how many ids shortuuid.New has produced
    cpc,        \* per connection: where HandleWebSocketConnection stands
    cid,        \* per connection: its clientId
    cl,         \* per connection: locals of the disconnect cleanup
    hs,         \* the handler goroutines, in the order their frames were read
    out,        \* per connection: the frames written to it with WriteJSON
    crashed,    \* the process has died of a panic or a fatal error
    ended       \* room ids ended by their creator and not created since

vars == <<clients, rooms, heap, mu, uuid, cpc, cid, cl, hs, out, crashed, ended>>

\* ------------------------------------------------------- pure functions
Contains(s, x) == \E k \in 1..Len(s) : s[k] = x

\* slices.Index: the first index of x in s, 0 when absent
Index(s, x) ==
    IF Contains(s, x) THEN CHOOSE k \in 1..Len(s) : s[k] = x /\ \A j \in 1..(k-1) : s[j] # x
    ELSE 0

\* slices.Delete(s, k, k+1)
Delete(s, k) == SubSeq(s, 1, k-1) \o SubSeq(s, k+1, Len(s))

\* msg[k].(string): the key is present and its value is a string (an id)
IsStr(msg, k) == k \in DOMAIN msg /\ msg[k] \in Nat

\* msg[k] of a frame: the zero value when the key is absent
Field(msg, k) == IF k \in DOMAIN msg THEN msg[k] ELSE None

\* a constructor that leaves the creator out of the members
NewRoomWithoutCreator(Id, Name, Creator) ==
    [Id |-> Id, Name |-> Name, Creator |-> Creator, Clients |-> <<>>]

\* room.NewRoom
NewRoom(Id, Name, Creator) ==
    [Id |-> Id, Name |-> Name, Creator |-> Creator, Clients |-> <<Creator>>]

\* Room.AddClient
AddClient(room, clientId) == [room EXCEPT !.Clients = Append(@, clientId)]

\* Room.RemoveClient
RemoveClient(room, clientId) ==
    LET indexToRemove == Index(room.Clients, clientId)
    IN  IF indexToRemove # 0
        THEN [room EXCEPT !.Clients = Delete(@, indexToRemove)]
        ELSE room

\* responsemessage.NewMessage, without timestamp and message id
NewMessage(type, title, id, room, members) ==
    [type |-> type, title |-> title, id |-> id, room |-> room, clients |-> members]
ErrorMessage(title, room) == NewMessage("error", title, None, room, <<>>)
InfoMessage(title, id, room, members) == NewMessage("info", title, id, room, members)
UpdateMessage(title, members) == NewMessage("update", title, None, None, members)

\* connection.WriteJSON on connection c
WriteJSON(o, c, frame) == [o EXCEPT ![c] = Append(@, frame)]

\* a generator that hands out again the id it handed out last
StaleId == IF uuid = 0 THEN 1 ELSE uuid

\* shortuuid.New(): an id never produced before
NewId == uuid + 1

\* ------------------------------------------------------------ the frames
\* The frames a client may send.  Room requests that name R1:
R1Frames == {[type |-> t, room |-> R1] : t \in RoomTypes}

\* a room named after the sender's own client id, and a request naming no room
\* (sent on the first connection only)
OddFrames(i) ==
    IF i # 1 THEN {}
    ELSE {[type |-> t, room |-> cid[i]] : t \in {"create_room", "join_room"}}
            \cup {[type |-> "join_room"]}

\* create_room with an id, with a name and no id, and join_room
RoomName == 5

CreateFrames ==
    {[type |-> "create_room", room |-> R1], [type |-> "create_room", name |-> RoomName],
     [type |-> "join_room", room |-> R1]}

Targets == {cid[j] : j \in {k \in Conns : cid[k] # None}} \cup {Ghost}

\* data is the payload: the number of the frame on its connection
FramesFrom(i) == Cardinality({h \in 1..Len(hs) : hs[h].conn = i})

RelayFrames(i, n) ==
    {[type |-> t, to |-> x, data |-> n] : t \in {"offer", "message"}, x \in Targets}
        \cup {[type |-> "answer", to |-> x, from |-> Ghost, data |-> n] : x \in Targets}
        \cup {[type |-> "candidate", data |-> n]}

\* connect requests: the session description in `data`, at the top level of
\* the frame, or nowhere; and frames of types the server does not know
Sdp == 7
Candidate == 8

ConnectFrames ==
    {[type |-> "connect", to |-> x, data |-> [sdp |-> Sdp, candidate |-> Candidate]] :
        x \in Targets}
        \cup {[type |-> "connect", to |-> x, data |-> [sdp |-> Sdp]] : x \in Targets}
        \cup {[type |-> "connect", to |-> x, sdp |-> Sdp, candidate |-> Candidate] :
                x \in Targets}
        \cup {[type |-> "connect", to |-> x] : x \in Targets}
        \cup {[type |-> "connect", data |-> [sdp |-> Sdp, candidate |-> Candidate]]}

UnknownFrames == {[type |-> "ping", to |-> x] : x \in Targets} \cup {[type |-> "room_created", room |-> R1]}

\* ------------------------------------------------------------------ Init
NoLocals == [seen |-> {}, start |-> {}, item |-> None]

Init ==
    /\ clients = <<>>
    /\ rooms = <<>>
    /\ heap = <<>>
    /\ mu = None
    /\ uuid = 0
    /\ cpc = [i \in Conns |-> "idle"]
    /\ cid = [i \in Conns |-> None]
    /\ cl = [i \in Conns |-> NoLocals]
    /\ hs = <<>>
    /\ out = [i \in Conns |-> <<>>]
    /\ crashed = FALSE
    /\ ended = {}

\* A panic or a fatal error of the runtime ends the process: no goroutine takes
\* another step, and the maps, the rooms and the connections are gone.
Panic ==
    /\ crashed' = TRUE
    /\ clients' = <<>> /\ rooms' = <<>> /\ heap' = <<>> /\ mu' = None /\ uuid' = 0
    /\ cpc' = [i \in Conns |-> "closed"]
    /\ cid' = [i \in Conns |-> None]
    /\ cl' = [i \in Conns |-> NoLocals]
    /\ hs' = <<>>
    /\ out' = [i \in Conns |-> <<>>]
    /\ ended' = {}

\* a map with key k set to v, and with key k deleted
MapSet(m, k, v) == [x \in DOMAIN m \cup {k} |-> IF x = k THEN v ELSE m[x]]
MapDelete(m, k) == [x \in DOMAIN m \ {k} |-> m[x]]
\* m[k] of a Go map of pointers: nil when the key is absent
MapGet(m, k) == IF k \in DOMAIN m THEN m[k] ELSE None

\* the goroutine of connection i, as an owner of the mutex
Me(i) == 0 - i

\* ----------------------------------------------------- the notification
\* notifyUpdateIntheRoom's loop over a snapshot of the members: every member
\* found in the clients map is written an update carrying the snapshot.
RECURSIVE NotifyLoop(_, _, _, _)
NotifyLoop(o, members, k, frame) ==
    IF k > Len(members) THEN o
    ELSE NotifyLoop(IF members[k] \in DOMAIN clients
                        THEN WriteJSON(o, clients[members[k]], frame) ELSE o,
                    members, k + 1, frame)

\* notifyUpdateIntheRoom(roomId, message) for a room that is in the map.  A
\* missing room is only logged, and room.GetClients() on the nil *Room then
\* panics: the callers take that branch.
Notify(roomId, message) ==
    out' = NotifyLoop(out, heap[rooms[roomId]].Clients, 1,
                      UpdateMessage(message, heap[rooms[roomId]].Clients))

\* ------------------------------------------- HandleWebSocketConnection
\* shortuuid.New() and mu.Lock() of the registration
Connect(i) ==
    /\ ~crashed /\ cpc[i] = "idle" /\ mu = None
    /\ \A j \in 1..(i-1) : cpc[j] # "idle"
    /\ uuid' = uuid + 1
    /\ cid' = [cid EXCEPT ![i] = NewId]
    /\ mu' = Me(i)
    /\ cpc' = [cpc EXCEPT ![i] = "reg"]
    /\ UNCHANGED <<clients, rooms, heap, cl, hs, out, crashed, ended>>

\* clients[clientId] = client; mu.Unlock()
Register(i) ==
    /\ ~crashed /\ cpc[i] = "reg"
    /\ clients' = MapSet(clients, cid[i], i)
    /\ mu' = None
    /\ cpc' = [cpc EXCEPT ![i] = "hello"]
    /\ UNCHANGED <<rooms, heap, uuid, cid, cl, hs, out, crashed, ended>>

\* a connection that starts to read without sending client_details
HelloForgotten(i) ==
    /\ ~crashed /\ cpc[i] = "hello"
    /\ cpc' = [cpc EXCEPT ![i] = "open"]
    /\ UNCHANGED <<clients, rooms, heap, mu, uuid, cid, cl, hs, out, crashed, ended>>

\* the client_details frame
Hello(i) ==
    /\ ~crashed /\ cpc[i] = "hello"
    /\ out' = WriteJSON(out, i, InfoMessage("client_details", cid[i], None, <<>>))
    /\ cpc' = [cpc EXCEPT ![i] = "open"]
    /\ UNCHANGED <<clients, rooms, heap, mu, uuid, cid, cl, hs, crashed, ended>>

\* ---------------------------------------------------------- handleMessage
\* the handler the switch of handleMessage calls, and how far its checks of
\* the frame alone (no shared state) take it
\* a switch whose default case relays the frame
DispatchRelaysUnknown(m) ==
    CASE m.type = "connect" -> IF IsStr(m, "to") THEN "connect_lock" ELSE "done"
      [] m.type = "create_room" -> "create_lock1"
      [] m.type \in {"join_room", "leave_room", "end_room"} ->
            IF IsStr(m, "room") THEN "chk_read" ELSE "chk_missing"
      [] OTHER -> IF IsStr(m, "to") THEN "relay_lock" ELSE "relay_missing"

Dispatch(m) ==
    CASE m.type = "connect" -> IF IsStr(m, "to") THEN "connect_lock" ELSE "done"
      [] m.type = "create_room" -> "create_lock1"
      [] m.type \in {"join_room", "leave_room", "end_room"} ->
            IF IsStr(m, "room") THEN "chk_read" ELSE "chk_missing"
      [] m.type \in RelayTypes ->
            IF IsStr(m, "to") THEN "relay_lock" ELSE "relay_missing"
      [] OTHER -> "done"

\* connection.ReadMessage() returns frame m; go handleMessage(client, message).
\* A create_room without a room id draws its id from shortuuid.New().
Spawn(i, m) ==
    LET fresh == m.type = "create_room" /\ ~IsStr(m, "room")
    IN  /\ hs' = Append(hs, [conn |-> i, from |-> cid[i], msg |-> m, pc |-> Dispatch(m),
                             rid |-> IF fresh THEN NewId
                                     ELSE IF IsStr(m, "room") THEN m.room ELSE None,
                             room |-> None, rm |-> None, target |-> None])
        /\ uuid' = IF fresh THEN uuid + 1 ELSE uuid

Receive(i, m) ==
    /\ ~crashed /\ cpc[i] = "open"
    /\ Spawn(i, m)
    /\ UNCHANGED <<clients, rooms, heap, mu, cpc, cid, cl, out, crashed, ended>>

\* the read loop, with the frames and the number of frames of each specification
ReadMessage(i, m) == Len(hs) < MaxFrames /\ Receive(i, m)
ReadRoom(i, m) == Len(hs) < MaxRoomFrames /\ Receive(i, m)
ReadRelay(i, m) == Len(hs) < MaxRelay /\ Receive(i, m)

At(h, p) == ~crashed /\ h \in 1..Len(hs) /\ hs[h].pc = p
Goto(h, p) == hs' = [hs EXCEPT ![h].pc = p]
Reply(h, frame) == out' = WriteJSON(out, hs[h].conn, frame)

\* mu.Lock() at any of the handlers' critical sections
LockPcs == {"create_lock1", "create_lock2", "end_lock", "join_lock", "rm_lock",
            "leave_lock", "relay_lock", "connect_lock"}
Locked(p) ==
    CASE p = "create_lock1" -> "create_read"
      [] p = "create_lock2" -> "create_insert"
      [] p = "end_lock" -> "end_delete"
      [] p = "join_lock" -> "join_add"
      [] p = "rm_lock" -> "rm_remove"
      [] p = "leave_lock" -> "leave_delete"
      [] p = "relay_lock" -> "relay_lookup"
      [] p = "connect_lock" -> "connect_lookup"

Lock(h) ==
    /\ ~crashed /\ h \in 1..Len(hs) /\ hs[h].pc \in LockPcs
    /\ mu = None
    /\ mu' = h
    /\ Goto(h, Locked(hs[h].pc))
    /\ UNCHANGED <<clients, rooms, heap, uuid, cpc, cid, cl, out, crashed, ended>>

\* ------------------------------------------------ handleCreateRoomMessage
\* myRoom, exists := rooms[roomId]; mu.Unlock()
CreateRead(h) ==
    /\ At(h, "create_read")
    /\ mu' = None
    /\ Goto(h, IF hs[h].rid \in DOMAIN rooms THEN "create_dup" ELSE "create_lock2")
    /\ UNCHANGED <<clients, rooms, heap, uuid, cpc, cid, cl, out, crashed, ended>>

CreateDup(h) ==
    /\ At(h, "create_dup")
    /\ Reply(h, ErrorMessage("duplicate room", hs[h].rid))
    /\ Goto(h, "done")
    /\ UNCHANGED <<clients, rooms, heap, mu, uuid, cpc, cid, cl, crashed, ended>>

\* myRoom = room.NewRoom(roomId, roomName, from); rooms[roomId] = myRoom; mu.Unlock()
CreateInsert(h) ==
    /\ At(h, "create_insert")
    /\ heap' = Append(heap, NewRoom(hs[h].rid, Field(hs[h].msg, "name"), hs[h].from))
    /\ rooms' = MapSet(rooms, hs[h].rid, Len(heap) + 1)
    /\ ended' = ended \ {hs[h].rid}
    /\ mu' = None
    /\ hs' = [hs EXCEPT ![h].pc = "create_reply", ![h].room = Len(heap) + 1]
    /\ UNCHANGED <<clients, uuid, cpc, cid, cl, out, crashed>>

\* responsemessage.InfoMessage("room_created", {clients, roomId, name})
RoomCreated(roomId, room) ==
    [type |-> "info", title |-> "room_created",
     room |-> roomId, name |-> room.Name, clients |-> room.Clients]

CreateReply(h) ==
    /\ At(h, "create_reply")
    /\ Reply(h, RoomCreated(hs[h].rid, heap[hs[h].room]))
    /\ hs' = [hs EXCEPT ![h].pc = "done", ![h].room = None]
    /\ UNCHANGED <<clients, rooms, heap, mu, uuid, cpc, cid, cl, crashed, ended>>

\* -------------------------------------------------------- checkRoomInJSON
AfterCheck(type) ==
    CASE type = "join_room" -> "join_get"
      [] type = "leave_room" -> "leave_get"
      [] type = "end_room" -> "end_get"

ChkMissing(h) ==
    /\ At(h, "chk_missing")
    /\ Reply(h, ErrorMessage("Missing fields", None))
    /\ Goto(h, "done")
    /\ UNCHANGED <<clients, rooms, heap, mu, uuid, cpc, cid, cl, crashed, ended>>

\* _, exists := rooms[roomId], read without the mutex
ChkRead(h) ==
    /\ At(h, "chk_read")
    /\ Goto(h, IF hs[h].rid \in DOMAIN rooms THEN AfterCheck(hs[h].msg.type) ELSE "chk_invalid")
    /\ UNCHANGED <<clients, rooms, heap, mu, uuid, cpc, cid, cl, out, crashed, ended>>

ChkInvalid(h) ==
    /\ At(h, "chk_invalid")
    /\ Reply(h, ErrorMessage("Invalid Room", hs[h].rid))
    /\ Goto(h, "done")
    /\ UNCHANGED <<clients, rooms, heap, mu, uuid, cpc, cid, cl, crashed, ended>>

\* --------------------------------------------------- handleEndRoomMessage
\* room := rooms[roomId]; room.GetCreator() != from.  The read is made without
\* the mutex, and GetCreator on a nil *Room panics.
\* !(room.GetCreator() != from)
EndAllowed(room, from) == room.Creator = from

EndGet(h) ==
    /\ At(h, "end_get")
    /\ LET room == MapGet(rooms, hs[h].rid)
       IN  IF room = None
           THEN Panic
           ELSE /\ hs' = [hs EXCEPT ![h].room = room,
                                    ![h].pc = IF EndAllowed(heap[room], hs[h].from)
                                              THEN "end_notify" ELSE "end_unauth"]
                /\ UNCHANGED <<clients, rooms, heap, mu, uuid, cpc, cid, cl, out,
                               crashed, ended>>

EndUnauth(h) ==
    /\ At(h, "end_unauth")
    /\ Reply(h, ErrorMessage("unauthorised", hs[h].rid))
    /\ hs' = [hs EXCEPT ![h].pc = "done", ![h].room = None]
    /\ UNCHANGED <<clients, rooms, heap, mu, uuid, cpc, cid, cl, crashed, ended>>

EndNotify(h) ==
    /\ At(h, "end_notify")
    /\ IF hs[h].rid \notin DOMAIN rooms
       THEN Panic
       ELSE /\ Notify(hs[h].rid, "room deleted")
            /\ Goto(h, "end_lock")
            /\ UNCHANGED <<clients, rooms, heap, mu, uuid, cpc, cid, cl, crashed, ended>>

\* an end_room that unlocks and finishes without deleting the room
EndDeleteForgotten(h) ==
    /\ At(h, "end_delete")
    /\ ended' = ended \cup {hs[h].rid}
    /\ mu' = None
    /\ hs' = [hs EXCEPT ![h].pc = "done", ![h].room = None]
    /\ UNCHANGED <<clients, rooms, heap, uuid, cpc, cid, cl, out, crashed>>

\* delete(rooms, roomId); mu.Unlock()
EndDelete(h) ==
    /\ At(h, "end_delete")
    /\ rooms' = MapDelete(rooms, hs[h].rid)
    /\ ended' = ended \cup {hs[h].rid}
    /\ mu' = None
    /\ hs' = [hs EXCEPT ![h].pc = "done", ![h].room = None]
    /\ UNCHANGED <<clients, heap, uuid, cpc, cid, cl, out, crashed>>

\* -------------------------------------------------- handleJoinRoomMessage
\* myRoom := rooms[roomId]
JoinGet(h) ==
    /\ At(h, "join_get")
    /\ hs' = [hs EXCEPT ![h].room = MapGet(rooms, hs[h].rid), ![h].pc = "join_check"]
    /\ UNCHANGED <<clients, rooms, heap, mu, uuid, cpc, cid, cl, out, crashed, ended>>

\* the member looked for in the room by the already-in-the-room check
JoinNeedle(h) == hs[h].rid

\* slices.Contains(myRoom.GetClients(), roomId)
JoinCheck(h) ==
    /\ At(h, "join_check")
    /\ IF hs[h].room = None
       THEN Panic
       ELSE /\ Goto(h, IF Contains(heap[hs[h].room].Clients, JoinNeedle(h))
                       THEN "join_already" ELSE "join_lock")
            /\ UNCHANGED <<clients, rooms, heap, mu, uuid, cpc, cid, cl, out,
                           crashed, ended>>

JoinAlready(h) ==
    /\ At(h, "join_already")
    /\ Reply(h, ErrorMessage("Already exists", hs[h].rid))
    /\ hs' = [hs EXCEPT ![h].pc = "done", ![h].room = None]
    /\ UNCHANGED <<clients, rooms, heap, mu, uuid, cpc, cid, cl, crashed, ended>>

\* a join_room that fans the update out before it unlocks
JoinAddNotifying(h) ==
    /\ At(h, "join_add")
    /\ heap' = [heap EXCEPT ![hs[h].room] = AddClient(@, hs[h].from)]
    /\ out' = NotifyLoop(out, AddClient(heap[hs[h].room], hs[h].from).Clients, 1,
                         UpdateMessage("client added",
                                       AddClient(heap[hs[h].room], hs[h].from).Clients))
    /\ mu' = None
    /\ hs' = [hs EXCEPT ![h].pc = "done", ![h].room = None]
    /\ UNCHANGED <<clients, rooms, uuid, cpc, cid, cl, crashed, ended>>

\* myRoom.AddClient(from); mu.Unlock()
JoinAdd(h) ==
    /\ At(h, "join_add")
    /\ heap' = [heap EXCEPT ![hs[h].room] = AddClient(@, hs[h].from)]
    /\ mu' = None
    /\ hs' = [hs EXCEPT ![h].pc = "join_notify", ![h].room = None]
    /\ UNCHANGED <<clients, rooms, uuid, cpc, cid, cl, out, crashed, ended>>

JoinNotify(h) ==
    /\ At(h, "join_notify")
    /\ IF hs[h].rid \notin DOMAIN rooms
       THEN Panic
       ELSE /\ Notify(hs[h].rid, "client added")
            /\ Goto(h, "done")
            /\ UNCHANGED <<clients, rooms, heap, mu, uuid, cpc, cid, cl, crashed, ended>>

\* ------------------------------------------------- handleLeaveRoomMessage
\* room := rooms[roomId]
LeaveGet(h) ==
    /\ At(h, "leave_get")
    /\ hs' = [hs EXCEPT ![h].room = MapGet(rooms, hs[h].rid), ![h].pc = "leave_check"]
    /\ UNCHANGED <<clients, rooms, heap, mu, uuid, cpc, cid, cl, out, crashed, ended>>

\* slices.Contains(room.GetClients(), from)
LeaveCheck(h) ==
    /\ At(h, "leave_check")
    /\ IF hs[h].room = None
       THEN Panic
       ELSE /\ Goto(h, IF Contains(heap[hs[h].room].Clients, hs[h].from)
                       THEN "rm_get" ELSE "leave_notfound")
            /\ UNCHANGED <<clients, rooms, heap, mu, uuid, cpc, cid, cl, out,
                           crashed, ended>>

\* removeClientFromRoom(from, false, roomId): room, ok := rooms[roomIds[0]]
RmGet(h) ==
    /\ At(h, "rm_get")
    /\ hs' = [hs EXCEPT ![h].rm = MapGet(rooms, hs[h].rid), ![h].pc = "rm_lock"]
    /\ UNCHANGED <<clients, rooms, heap, mu, uuid, cpc, cid, cl, out, crashed, ended>>

\* room.RemoveClient(clientId); mu.Unlock().  A nil room panics, mutex held.
RmRemove(h) ==
    /\ At(h, "rm_remove")
    /\ IF hs[h].rm = None
       THEN Panic
       ELSE /\ heap' = [heap EXCEPT ![hs[h].rm] = RemoveClient(@, hs[h].from)]
            /\ mu' = None
            /\ hs' = [hs EXCEPT ![h].pc = "rm_notify", ![h].rm = None]
            /\ UNCHANGED <<clients, rooms, uuid, cpc, cid, cl, out, crashed, ended>>

RmNotify(h) ==
    /\ At(h, "rm_notify")
    /\ IF hs[h].rid \notin DOMAIN rooms
       THEN Panic
       ELSE /\ Notify(hs[h].rid, "client removed")
            /\ Goto(h, "leave_len")
            /\ UNCHANGED <<clients, rooms, heap, mu, uuid, cpc, cid, cl, crashed, ended>>

LeaveNotFound(h) ==
    /\ At(h, "leave_notfound")
    /\ Reply(h, ErrorMessage("Client not found", hs[h].rid))
    /\ Goto(h, "leave_len")
    /\ UNCHANGED <<clients, rooms, heap, mu, uuid, cpc, cid, cl, crashed, ended>>

\* len(room.GetClients()) == 0
LeaveLen(h) ==
    /\ At(h, "leave_len")
    /\ hs' = [hs EXCEPT ![h].pc = IF Len(heap[hs[h].room].Clients) = 0
                                  THEN "leave_lock" ELSE "done",
                        ![h].room = None]
    /\ UNCHANGED <<clients, rooms, heap, mu, uuid, cpc, cid, cl, out, crashed, ended>>

\* a leave_room that deletes the room and returns without unlocking
LeaveDeleteKeepsLock(h) ==
    /\ At(h, "leave_delete")
    /\ rooms' = MapDelete(rooms, hs[h].rid)
    /\ Goto(h, "done")
    /\ UNCHANGED <<clients, heap, mu, uuid, cpc, cid, cl, out, crashed, ended>>

\* delete(rooms, roomId); mu.Unlock()
LeaveDelete(h) ==
    /\ At(h, "leave_delete")
    /\ rooms' = MapDelete(rooms, hs[h].rid)
    /\ mu' = None
    /\ Goto(h, "done")
    /\ UNCHANGED <<clients, heap, uuid, cpc, cid, cl, out, crashed, ended>>

\* --------------------------------------------------- relayMessageToTarget
RelayMissing(h) ==
    /\ At(h, "relay_missing")
    /\ Reply(h, ErrorMessage("missing fields", None))
    /\ Goto(h, "done")
    /\ UNCHANGED <<clients, rooms, heap, mu, uuid, cpc, cid, cl, crashed, ended>>

\* targetClient, exists := clients[targetID]; mu.Unlock()
RelayLookup(h) ==
    /\ At(h, "relay_lookup")
    /\ mu' = None
    /\ hs' = [hs EXCEPT ![h].target = MapGet(clients, hs[h].msg.to),
                        ![h].pc = IF hs[h].msg.to \in DOMAIN clients
                                  THEN "relay_send" ELSE "done"]
    /\ UNCHANGED <<clients, rooms, heap, uuid, cpc, cid, cl, out, crashed, ended>>

\* a relay that stamps the sender but leaves `to` in the frame
RelayFrameKeepsTo(msg, from) ==
    [k \in DOMAIN msg \cup {"from"} |-> IF k = "from" THEN from ELSE msg[k]]

\* delete(msg, "to"); msg["from"] = client.GetClientId()
RelayFrame(msg, from) ==
    [k \in (DOMAIN msg \ {"to"}) \cup {"from"} |-> IF k = "from" THEN from ELSE msg[k]]

\* targetClient.GetConnection().WriteJSON(msg)
RelaySend(h) ==
    /\ At(h, "relay_send")
    /\ out' = WriteJSON(out, hs[h].target, RelayFrame(hs[h].msg, hs[h].from))
    /\ Goto(h, "done")
    /\ UNCHANGED <<clients, rooms, heap, mu, uuid, cpc, cid, cl, crashed, ended>>

\* --------------------------------------------------- handleConnectMessage
\* targetClient, exists := clients[targetID]; mu.Unlock().  An unknown target
\* is only logged.
ConnectLookup(h) ==
    /\ At(h, "connect_lookup")
    /\ mu' = None
    /\ hs' = [hs EXCEPT ![h].target = MapGet(clients, hs[h].msg.to),
                        ![h].pc = IF hs[h].msg.to \in DOMAIN clients
                                  THEN "connect_send" ELSE "done"]
    /\ UNCHANGED <<clients, rooms, heap, uuid, cpc, cid, cl, out, crashed, ended>>

\* connectMsg: the sender's id and the frame's top-level sdp and candidate
ConnectMsg(msg, from) ==
    [type |-> "offer", from |-> from,
     sdp |-> Field(msg, "sdp"), candidate |-> Field(msg, "candidate")]

\* responsemessage.InfoMessage("offer", connectMsg)
OfferMessage(connectMsg) == [type |-> "info", title |-> "offer", data |-> connectMsg]

\* targetClient.GetConnection().WriteJSON(...)
ConnectSend(h) ==
    /\ At(h, "connect_send")
    /\ out' = WriteJSON(out, hs[h].target, OfferMessage(ConnectMsg(hs[h].msg, hs[h].from)))
    /\ Goto(h, "done")
    /\ UNCHANGED <<clients, rooms, heap, mu, uuid, cpc, cid, cl, crashed, ended>>

\* ------------------------------- the deferred cleanup of a closed connection
\* ReadMessage fails; the deferred removeClientFromRoom(clientId, true) starts
\* to range over the rooms map.
ReadError(i) ==
    /\ ~crashed /\ cpc[i] = "open"
    /\ cpc' = [cpc EXCEPT ![i] = "dc_range"]
    /\ cl' = [cl EXCEPT ![i] = [seen |-> {}, start |-> DOMAIN rooms, item |-> None]]
    /\ UNCHANGED <<clients, rooms, heap, mu, uuid, cid, hs, out, crashed, ended>>

\* for _, roomItem := range rooms: the next entry, and the scan of its members
\* for clientId.  An entry deleted before it is reached is not produced; an
\* entry added during the loop may be produced or skipped.
DcNext(i, r) ==
    /\ ~crashed /\ cpc[i] = "dc_range"
    /\ r \in DOMAIN rooms \ cl[i].seen
    /\ cl' = [cl EXCEPT ![i].seen = @ \cup {r}, ![i].item = rooms[r]]
    /\ cpc' = [cpc EXCEPT ![i] = IF Contains(heap[rooms[r]].Clients, cid[i])
                                 THEN "dc_notify" ELSE "dc_range"]
    /\ UNCHANGED <<clients, rooms, heap, mu, uuid, cid, hs, out, crashed, ended>>

\* the loop is over; if deleteClient { removeClient(clientId) }
DcExit(i) ==
    /\ ~crashed /\ cpc[i] = "dc_range"
    /\ (cl[i].start \cap DOMAIN rooms) \subseteq cl[i].seen
    /\ cpc' = [cpc EXCEPT ![i] = "dc_clock"]
    /\ cl' = [cl EXCEPT ![i] = NoLocals]
    /\ UNCHANGED <<clients, rooms, heap, mu, uuid, cid, hs, out, crashed, ended>>

\* The cleanup runs in the goroutine net/http serves the request in, which
\* recovers a panic of the handler: the goroutine ends where it panicked, the
\* rest of the cleanup is not run and the process lives on.
Recovered(i) ==
    /\ cpc' = [cpc EXCEPT ![i] = "closed"]
    /\ cl' = [cl EXCEPT ![i] = NoLocals]
    /\ UNCHANGED <<clients, rooms, heap, mu, uuid, cid, hs, out, crashed, ended>>

\* notifyUpdateIntheRoom(roomItem.GetId(), "client removed"), before the removal
DcNotify(i) ==
    /\ ~crashed /\ cpc[i] = "dc_notify"
    /\ IF heap[cl[i].item].Id \notin DOMAIN rooms
       THEN Recovered(i)
       ELSE /\ Notify(heap[cl[i].item].Id, "client removed")
            /\ cpc' = [cpc EXCEPT ![i] = "dc_lock"]
            /\ UNCHANGED <<clients, rooms, heap, mu, uuid, cid, cl, hs, crashed, ended>>

\* mu.Lock() at any of the cleanup's critical sections
CLockPcs == {"dc_lock", "dc_dlock", "dc_clock"}
CLocked(p) ==
    CASE p = "dc_lock" -> "dc_remove"
      [] p = "dc_dlock" -> "dc_delete"
      [] p = "dc_clock" -> "dc_cdel"

CLock(i) ==
    /\ ~crashed /\ cpc[i] \in CLockPcs
    /\ mu = None
    /\ mu' = Me(i)
    /\ cpc' = [cpc EXCEPT ![i] = CLocked(cpc[i])]
    /\ UNCHANGED <<clients, rooms, heap, uuid, cid, cl, hs, out, crashed, ended>>

\* roomItem.RemoveClient(clientId); mu.Unlock()
DcRemove(i) ==
    /\ ~crashed /\ cpc[i] = "dc_remove"
    /\ heap' = [heap EXCEPT ![cl[i].item] = RemoveClient(@, cid[i])]
    /\ mu' = None
    /\ cpc' = [cpc EXCEPT ![i] = "dc_len"]
    /\ UNCHANGED <<clients, rooms, uuid, cid, cl, hs, out, crashed, ended>>

\* len(roomItem.GetClients()) == 0; either way the inner loop breaks
DcLen(i) ==
    /\ ~crashed /\ cpc[i] = "dc_len"
    /\ cpc' = [cpc EXCEPT ![i] = IF Len(heap[cl[i].item].Clients) = 0
                                 THEN "dc_dlock" ELSE "dc_range"]
    /\ UNCHANGED <<clients, rooms, heap, mu, uuid, cid, cl, hs, out, crashed, ended>>

\* delete(rooms, roomItem.GetId()); mu.Unlock()
DcDelete(i) ==
    /\ ~crashed /\ cpc[i] = "dc_delete"
    /\ rooms' = MapDelete(rooms, heap[cl[i].item].Id)
    /\ mu' = None
    /\ cpc' = [cpc EXCEPT ![i] = "dc_range"]
    /\ UNCHANGED <<clients, heap, uuid, cid, cl, hs, out, crashed, ended>>

\* removeClient: delete(clients, clientID); mu.Unlock(); then connection.Close()
RemoveClientEntry(i) ==
    /\ ~crashed /\ cpc[i] = "dc_cdel"
    /\ clients' = MapDelete(clients, cid[i])
    /\ mu' = None
    /\ cpc' = [cpc EXCEPT ![i] = "closed"]
    /\ UNCHANGED <<rooms, heap, uuid, cid, cl, hs, out, crashed, ended>>

\* removeClientFromRoom(clientId, true) run from start to end with no other
\* goroutine in between, on the maps rs (rooms) and cs (clients) and the rooms
\* hp: each room whose members hold clientId loses the first occurrence and is
\* deleted from the map if that empties it; then the client is deleted.
RunCleanup(rs, hp, cs, clientId) ==
    LET hit == {r \in DOMAIN rs : Contains(hp[rs[r]].Clients, clientId)}
        hp2 == [k \in DOMAIN hp |->
                    IF \E r \in hit : rs[r] = k THEN RemoveClient(hp[k], clientId)
                    ELSE hp[k]]
        gone == {r \in hit : Len(hp2[rs[r]].Clients) = 0}
    IN  [rooms |-> [r \in DOMAIN rs \ gone |-> rs[r]],
         heap |-> hp2,
         clients |-> MapDelete(cs, clientId)]

\* ------------------------------------------- unsynchronised map accesses
\* The Go runtime ends the process ("concurrent map read and map write",
\* "concurrent map iteration and map write") when a map is read while a write
\* to it is in progress.  The writes are all made with the mutex held; these
\* are the places that read a map without it.
RoomsWritePcs == {"create_insert", "end_delete", "leave_delete"}
RoomsReadPcs == {"chk_read", "end_get", "join_get", "leave_get", "rm_get",
                 "end_notify", "join_notify", "rm_notify"}
ClientsReadPcs == {"rm_get", "end_notify", "join_notify", "rm_notify"}

\* The places that read a room's Clients slice (GetClients) and the places that
\* write it (AddClient, RemoveClient).
MembersReadPcs == {"create_reply", "join_check", "leave_check", "leave_len",
                   "end_notify", "join_notify", "rm_notify"}
MembersWritePcs == {"join_add", "rm_remove"}

WritingRooms ==
    \/ mu > 0 /\ hs[mu].pc \in RoomsWritePcs
    \/ mu < 0 /\ cpc[0 - mu] = "dc_delete"
WritingClients == mu < 0 /\ cpc[0 - mu] \in {"reg", "dc_cdel"}

ReadingRooms ==
    \/ \E h \in 1..Len(hs) : hs[h].pc \in RoomsReadPcs
    \/ \E i \in Conns : cpc[i] \in {"dc_range", "dc_notify"}
ReadingClients ==
    \/ \E h \in 1..Len(hs) : hs[h].pc \in ClientsReadPcs
    \/ \E i \in Conns : cpc[i] = "dc_notify"

MapFault ==
    /\ ~crashed
    /\ \/ WritingRooms /\ ReadingRooms
       \/ WritingClients /\ ReadingClients
    /\ Panic

\* ------------------------------------------------------------------ Next
OpenStep(i) == Connect(i) \/ Register(i) \/ Hello(i)

ConnStep(i) ==
    \/ OpenStep(i)
    \/ ReadError(i) \/ (\E r \in DOMAIN rooms : DcNext(i, r)) \/ DcExit(i)
    \/ DcNotify(i) \/ CLock(i) \/ DcRemove(i) \/ DcLen(i) \/ DcDelete(i)
    \/ RemoveClientEntry(i)

RoomStep(h) ==
    \/ CreateRead(h) \/ CreateDup(h) \/ CreateInsert(h) \/ CreateReply(h)
    \/ ChkMissing(h) \/ ChkRead(h) \/ ChkInvalid(h)
    \/ EndGet(h) \/ EndUnauth(h) \/ EndNotify(h) \/ EndDelete(h)
    \/ JoinGet(h) \/ JoinCheck(h) \/ JoinAlready(h) \/ JoinAdd(h) \/ JoinNotify(h)
    \/ LeaveGet(h) \/ LeaveCheck(h) \/ RmGet(h) \/ RmRemove(h) \/ RmNotify(h)
    \/ LeaveNotFound(h) \/ LeaveLen(h) \/ LeaveDelete(h)

RelayStep(h) == RelayMissing(h) \/ RelayLookup(h) \/ RelaySend(h)

\* The server with clients that connect, send room requests and disconnect.
Next ==
    \/ \E i \in Conns : ConnStep(i)
    \/ \E i \in Conns : \E m \in R1Frames \cup OddFrames(i) : ReadMessage(i, m)
    \/ \E h \in Handlers : Lock(h)
    \/ \E h \in Handlers : RoomStep(h)
    \/ MapFault

Spec == Init /\ [][Next]_vars

\* Clients that stay connected and send requests for the one room R1.  No
\* client id equals R1, so the already-in-the-room branch of join_room is never
\* taken and is left out.
R1Step(h) ==
    \/ CreateRead(h) \/ CreateDup(h) \/ CreateInsert(h) \/ CreateReply(h)
    \/ ChkRead(h) \/ ChkInvalid(h)
    \/ EndGet(h) \/ EndUnauth(h) \/ EndNotify(h) \/ EndDelete(h)
    \/ JoinGet(h) \/ JoinCheck(h) \/ JoinAdd(h) \/ JoinNotify(h)
    \/ LeaveGet(h) \/ LeaveCheck(h) \/ RmGet(h) \/ RmRemove(h) \/ RmNotify(h)
    \/ LeaveNotFound(h) \/ LeaveLen(h) \/ LeaveDelete(h)

NextRoom ==
    \/ \E i \in Conns : OpenStep(i)
    \/ \E i \in Conns : \E m \in R1Frames : ReadRoom(i, m)
    \/ \E h \in Handlers : Lock(h)
    \/ \E h \in Handlers : R1Step(h)
    \/ MapFault

SpecRoom == Init /\ [][NextRoom]_vars

\* Clients that connect, relay frames to each other and disconnect.  There are
\* no rooms, and the clients map is only read with the mutex held.
CloseStep(i) == ReadError(i) \/ DcExit(i) \/ CLock(i) \/ RemoveClientEntry(i)

NextRelay ==
    \/ \E i \in Conns : OpenStep(i)
    \/ \E i \in Conns : CloseStep(i)
    \/ \E i \in Conns : \E m \in RelayFrames(i, FramesFrom(i) + 1) : ReadRelay(i, m)
    \/ \E h \in Handlers : Lock(h)
    \/ \E h \in Handlers : RelayStep(h)

SpecRelay == Init /\ [][NextRelay]_vars

\* Clients that connect, send connect requests and frames of unknown types,
\* and disconnect.
ReadConnect(i, m) == Len(hs) < MaxConnect /\ Receive(i, m)

ConnectStep(h) == ConnectLookup(h) \/ ConnectSend(h)

NextConnect ==
    \/ \E i \in Conns : OpenStep(i)
    \/ \E i \in Conns : CloseStep(i)
    \/ \E i \in Conns : \E m \in ConnectFrames \cup UnknownFrames : ReadConnect(i, m)
    \/ \E h \in Handlers : Lock(h)
    \/ \E h \in Handlers : ConnectStep(h)

SpecConnect == Init /\ [][NextConnect]_vars

\* Clients that stay connected, create rooms with and without an id and join
\* the room R1.
ReadCreate(i, m) == Len(hs) < MaxCreate /\ Receive(i, m)

CreateStep(h) ==
    \/ CreateRead(h) \/ CreateDup(h) \/ CreateInsert(h) \/ CreateReply(h)
    \/ ChkRead(h) \/ ChkInvalid(h)
    \/ JoinGet(h) \/ JoinCheck(h) \/ JoinAdd(h) \/ JoinNotify(h)

NextCreate ==
    \/ \E i \in Conns : OpenStep(i)
    \/ \E i \in Conns : \E m \in CreateFrames : ReadCreate(i, m)
    \/ \E h \in Handlers : Lock(h)
    \/ \E h \in Handlers : CreateStep(h)
    \/ MapFault

SpecCreate == Init /\ [][NextCreate]_vars

\* Clients that connect, send requests for the room R1 and disconnect, with
\* the scheduling of goroutines: a goroutine that can take a step is not
\* passed over forever (a goroutine waiting in mu.Lock() included).  Opening
\* a connection, sending a frame and closing are up to the client.
ReadLive(i, m) == Len(hs) < MaxLive /\ Receive(i, m)

Serve(i) ==
    \/ Register(i) \/ Hello(i)
    \/ (\E r \in DOMAIN rooms : DcNext(i, r)) \/ DcExit(i)
    \/ DcNotify(i) \/ CLock(i) \/ DcRemove(i) \/ DcLen(i) \/ DcDelete(i)
    \/ RemoveClientEntry(i)

NextLive ==
    \/ \E i \in Conns : Connect(i) \/ ReadError(i)
    \/ \E i \in Conns : Serve(i)
    \/ \E i \in Conns : \E m \in R1Frames : ReadLive(i, m)
    \/ \E h \in Handlers : Lock(h)
    \/ \E h \in Handlers : R1Step(h)
    \/ MapFault

Scheduled ==
    /\ \A i \in Conns : WF_vars(Serve(i))
    /\ \A h \in Handlers : WF_vars(Lock(h) \/ R1Step(h))

SpecLive == Init /\ [][NextLive]_vars /\ Scheduled

\* ================================================================ claims
\* connection i has an entry in the clients map, from Register to removeClient
Registered(i) == cpc[i] \notin {"idle", "reg", "closed"}

HandlersOf(type) == {h \in 1..Len(hs) : hs[h].msg.type = type}

\* the members of the room registered under id r
Members(r) == heap[rooms[r]].Clients

NoDuplicates(s) == \A a, b \in 1..Len(s) : a # b => s[a] # s[b]

\* C1: no two clients registered at the same time share an id, the entry of a
\* registered client is still its own (no registration replaced it), and the
\* rooms registered under two ids are two rooms, each carrying the id it is
\* registered under.
UniqueIds ==
    /\ \A i, j \in Conns : i # j /\ Registered(i) /\ Registered(j) => cid[i] # cid[j]
    /\ \A i \in Conns : Registered(i) => cid[i] \in DOMAIN clients /\ clients[cid[i]] = i
    /\ \A r \in DOMAIN rooms : heap[rooms[r]].Id = r

\* two clients are registered and two rooms exist
TwoClientsTwoRooms ==
    /\ Registered(1) /\ Registered(2)
    /\ Cardinality(DOMAIN rooms) = 2

\* C2: a join_room whose sender is a member of the room when the handler makes
\* its already-in-the-room check goes on to the already-exists error, and no
\* join_room appends an id to a member sequence that holds it.
JoinByMemberRejected ==
    [][\A h \in HandlersOf("join_room") : ~crashed' =>
        /\ (/\ hs[h].pc = "join_check" /\ hs'[h].pc # "join_check"
            /\ Contains(heap[hs[h].room].Clients, hs[h].from))
               => hs'[h].pc = "join_already"
        /\ (hs[h].pc = "join_add" /\ hs'[h].pc # "join_add")
               => ~Contains(heap[hs[h].room].Clients, hs[h].from)]_vars

\* C3: no registered room's member sequence holds a client id twice.
NoDuplicateMembers == \A r \in DOMAIN rooms : NoDuplicates(Members(r))

\* no handler and no cleanup is in progress
Quiet ==
    /\ ~crashed
    /\ \A h \in 1..Len(hs) : hs[h].pc = "done"
    /\ \A i \in Conns : cpc[i] \in {"idle", "open", "closed"}

\* C4: when no handler and no cleanup is in progress, every registered room has
\* a member.
NoEmptyRoomWhenQuiet == Quiet => \A r \in DOMAIN rooms : Len(Members(r)) > 0

\* C5: an end_room handler that finds the room goes on to delete it exactly
\* when its sender is the creator recorded in the room, a member or not; any
\* other sender gets the unauthorised error and the maps and the rooms stay as
\* they are; and the room a handler takes out of the map is one its sender
\* created.
EndRoomByCreatorOnly ==
    [][\A h \in HandlersOf("end_room") : ~crashed' =>
        /\ (hs[h].pc = "end_get" /\ hs'[h].pc # "end_get")
               => /\ hs'[h].pc \in {"end_notify", "end_unauth"}
                  /\ hs'[h].pc = "end_notify" <=> heap[rooms[hs[h].rid]].Creator = hs[h].from
        /\ (hs[h].pc = "end_unauth" /\ hs'[h].pc # "end_unauth")
               => /\ hs'[h].pc = "done"
                  /\ out' = WriteJSON(out, hs[h].conn, ErrorMessage("unauthorised", hs[h].rid))
                  /\ rooms' = rooms /\ heap' = heap
        /\ (hs[h].pc = "end_delete" /\ hs'[h].pc # "end_delete")
               => /\ hs[h].rid \notin DOMAIN rooms'
                  /\ hs[h].rid \in DOMAIN rooms
                        => heap[rooms[hs[h].rid]].Creator = hs[h].from]_vars

\* C7: a create_room handler registers its room only under an id that has no
\* room: it never replaces the creator and the members registered under the id.
CreateNeverOverwrites ==
    [][\A h \in HandlersOf("create_room") : ~crashed' =>
        ((hs[h].pc = "create_insert" /\ hs'[h].pc # "create_insert")
            => hs[h].rid \notin DOMAIN rooms)]_vars

\* C8: once a connection is closed and every handler of its frames is done,
\* its client id is in no map and in no registered room.
Gone(i) ==
    /\ cid[i] \notin DOMAIN clients
    /\ \A r \in DOMAIN rooms : ~Contains(Members(r), cid[i])

ClosedClientGone ==
    \A i \in Conns :
        (/\ ~crashed /\ cpc[i] = "closed"
         /\ \A h \in 1..Len(hs) : hs[h].conn = i => hs[h].pc = "done")
            => Gone(i)

\* C10: a room id ended by its creator is in no map until a create_room
\* registers it again, and until then a join_room that looks the id up gets
\* the invalid-room error and changes no room.
EndedRoomRejectsJoin ==
    /\ [](\A r \in ended : r \notin DOMAIN rooms)
    /\ [][\A h \in HandlersOf("join_room") : (~crashed' /\ hs[h].rid \in ended) =>
            /\ hs[h].pc = "chk_read" => hs'[h].pc \in {"chk_read", "chk_invalid"}
            /\ (hs[h].pc = "chk_invalid" /\ hs'[h].pc # "chk_invalid")
                   => /\ hs'[h].pc = "done"
                      /\ out' = WriteJSON(out, hs[h].conn,
                                          ErrorMessage("Invalid Room", hs[h].rid))
                      /\ rooms' = rooms /\ heap' = heap]_vars

\* a join_room for an ended room has been answered with the invalid-room error
JoinAfterEndRefused ==
    \E h \in HandlersOf("join_room") :
        /\ hs[h].pc = "done"
        /\ hs[h].rid \in ended
        /\ \E k \in 1..Len(out[hs[h].conn]) :
              out[hs[h].conn][k] = ErrorMessage("Invalid Room", hs[h].rid)

\* the frame the target of a relayed frame m of sender s is to get: m without
\* its `to`, with `from` set to s
ExpectedRelay(m, s) ==
    [k \in (DOMAIN m \ {"to"}) \cup {"from"} |-> IF k = "from" THEN s ELSE m[k]]

Copies(c, f) == Cardinality({k \in 1..Len(out[c]) : out[c][k] = f})

\* C6: a relayed frame whose `to` is in the clients map when the handler looks
\* it up is written once to that client's connection and to no other, as the
\* input frame without `to` and with `from` set to the sender's id; before the
\* handler has written it, and when the target was not found, it is nowhere.
RelayFidelity ==
    /\ [](\A h \in 1..Len(hs) : \A c \in Conns :
            (hs[h].msg.type \in RelayTypes /\ IsStr(hs[h].msg, "to")) =>
                Copies(c, ExpectedRelay(hs[h].msg, hs[h].from))
                    = IF hs[h].pc = "done" /\ hs[h].target = c THEN 1 ELSE 0)
    /\ [][\A h \in 1..Len(hs) :
            (/\ hs[h].pc = "relay_lookup" /\ hs'[h].pc # "relay_lookup"
             /\ hs[h].msg.to \in DOMAIN clients)
                => hs'[h].pc = "relay_send" /\ hs'[h].target = clients[hs[h].msg.to]]_vars

\* a frame that carried a `from` of its own has been relayed to another client
RelayedToPeer ==
    \E h \in 1..Len(hs) :
        /\ hs[h].pc = "done" /\ hs[h].target \notin {None, hs[h].conn}
        /\ "from" \in DOMAIN hs[h].msg
        /\ Copies(hs[h].target, ExpectedRelay(hs[h].msg, hs[h].from)) = 1

\* C9: the relayed frames one connection gets from one sender are in the order
\* in which the sender's frames were read.
IsRelayed(f) == "data" \in DOMAIN f

RelayInOrder ==
    \A c \in Conns : \A a, b \in 1..Len(out[c]) :
        (/\ a < b /\ IsRelayed(out[c][a]) /\ IsRelayed(out[c][b])
         /\ out[c][a].from = out[c][b].from)
            => out[c][a].data < out[c][b].data

\* the error frames written to connection c
Errors(c) == {k \in 1..Len(out[c]) : out[c][k].type = "error"}

\* the connect handlers of connection c that found their target missing
ConnectsToMissing(c) ==
    {h \in HandlersOf("connect") :
        /\ hs[h].conn = c /\ hs[h].pc = "done"
        /\ IsStr(hs[h].msg, "to") /\ hs[h].target = None}

\* C11: every connect request whose `to` is not in the clients map when the
\* handler looks it up has put one error frame on its sender's connection: a
\* connection holds as many error frames as it has such requests.
ConnectToMissingAnswered ==
    \A c \in Conns : Cardinality(Errors(c)) = Cardinality(ConnectsToMissing(c))

\* the positions where a handler has found its request invalid and is to answer
RejectPcs == {"relay_missing", "chk_missing", "chk_invalid", "create_dup",
              "join_already", "leave_notfound", "end_unauth"}

\* C12: a handler that finds its request invalid answers it: one that finds
\* the target client missing, or the joiner already a member, goes on to an
\* answer, and the answer is one error frame appended to the requester's
\* connection, with nothing written to any other connection and the clients
\* map unchanged.
RejectionsAnswered ==
    [][\A h \in 1..Len(hs) : ~crashed' =>
        /\ (/\ hs[h].pc \in {"relay_lookup", "connect_lookup"}
            /\ hs'[h].pc # hs[h].pc
            /\ hs[h].msg.to \notin DOMAIN clients)
               => hs'[h].pc \in RejectPcs
        /\ (/\ hs[h].pc = "join_check" /\ hs'[h].pc # "join_check"
            /\ Contains(heap[hs[h].room].Clients, hs[h].from))
               => hs'[h].pc \in RejectPcs
        /\ (hs[h].pc \in RejectPcs /\ hs'[h].pc # hs[h].pc)
               => /\ Len(out'[hs[h].conn]) = Len(out[hs[h].conn]) + 1
                  /\ out'[hs[h].conn][Len(out'[hs[h].conn])].type = "error"
                  /\ out' = WriteJSON(out, hs[h].conn, out'[hs[h].conn][Len(out'[hs[h].conn])])
                  /\ clients' = clients]_vars

\* how many times x occurs in the sequence s
Occurrences(s, x) == Cardinality({k \in 1..Len(s) : s[k] = x})

\* the connections of the registered clients among the ids of s
ConnsOf(s) == {clients[s[k]] : k \in {j \in 1..Len(s) : s[j] \in DOMAIN clients}}

\* C13: a join_room of a client that is not in the room appends the client's
\* id at the end of the member sequence; and when the handler of a joiner that
\* is in the room once fans out, each connection of a registered member
\* (the joiner's too) is written one `client added` update carrying the
\* members, and no other connection is written anything.
JoinAppendsAndNotifies ==
    [][\A h \in HandlersOf("join_room") : ~crashed' =>
        /\ (/\ hs[h].pc = "join_add" /\ hs'[h].pc # "join_add"
            /\ ~Contains(heap[hs[h].room].Clients, hs[h].from))
               => heap' = [heap EXCEPT ![hs[h].room].Clients = Append(@, hs[h].from)]
        /\ (/\ hs[h].pc = "join_notify" /\ hs'[h].pc # "join_notify"
            /\ Occurrences(Members(hs[h].rid), hs[h].from) = 1)
               => \A c \in Conns :
                     out'[c] = IF c \in ConnsOf(Members(hs[h].rid))
                               THEN Append(out[c], UpdateMessage("client added",
                                                                 Members(hs[h].rid)))
                               ELSE out[c]]_vars

\* C14: a leave_room handler that finds its sender in the room takes the
\* sender out of the registered room and then writes a `client removed` update
\* to the connections of the remaining registered members; one that does not
\* find the sender answers with the client-not-found error and changes neither
\* the map nor any room; and a leave_room handler that has passed the check has,
\* when it finishes, answered its sender with room_left or with that error.
LeaveRemovesAndAnswers ==
    [][\A h \in HandlersOf("leave_room") : ~crashed' =>
        /\ (hs[h].pc = "rm_remove" /\ hs'[h].pc # "rm_remove")
               => heap' = [heap EXCEPT ![hs[h].rm] = RemoveClient(@, hs[h].from)]
        /\ (hs[h].pc = "rm_notify" /\ hs'[h].pc # "rm_notify")
               => \A c \in Conns :
                     /\ out'[c] # out[c] => c \in ConnsOf(Members(hs[h].rid))
                     /\ \A k \in (Len(out[c]) + 1)..Len(out'[c]) :
                           out'[c][k] = UpdateMessage("client removed", Members(hs[h].rid))
        /\ (hs[h].pc = "leave_notfound" /\ hs'[h].pc # "leave_notfound")
               => /\ out' = WriteJSON(out, hs[h].conn,
                                      ErrorMessage("Client not found", hs[h].rid))
                  /\ rooms' = rooms /\ heap' = heap
        /\ (hs[h].pc \in {"leave_len", "leave_delete"} /\ hs'[h].pc = "done")
               => \E k \in 1..Len(out'[hs[h].conn]) :
                     out'[hs[h].conn][k].title \in {"room_left", "Client not found"}]_vars

\* C15: the fan-out of an end_room handler writes one `room deleted` update to
\* the connection of each registered member of the room and nothing to any
\* other connection, and the handler finishes by its delete, after which the
\* room id is in no map.
EndNotifiesMembersOnce ==
    [][\A h \in HandlersOf("end_room") : ~crashed' =>
        /\ (hs[h].pc = "end_notify" /\ hs'[h].pc # "end_notify")
               => \A c \in Conns :
                     out'[c] = IF c \in ConnsOf(Members(hs[h].rid))
                               THEN Append(out[c], UpdateMessage("room deleted",
                                                                 Members(hs[h].rid)))
                               ELSE out[c]
        /\ (hs[h].pc = "end_delete" /\ hs'[h].pc # "end_delete")
               => hs'[h].pc = "done" /\ hs[h].rid \notin DOMAIN rooms']_vars

\* C16: a create_room handler that finds no room under its id goes on to
\* register one, and an id the server generated is never found in use; the room
\* it registers has the frame's name, the sender as creator and the sender as
\* its only member; and its reply is one room_created frame, written to the
\* sender's connection alone, carrying the id, the name and the members of the
\* room it registered.
CreateRegistersAndReplies ==
    [][\A h \in HandlersOf("create_room") : ~crashed' =>
        /\ (hs[h].pc = "create_read" /\ hs'[h].pc # "create_read")
               => /\ hs[h].rid \notin DOMAIN rooms => hs'[h].pc = "create_lock2"
                  /\ "room" \notin DOMAIN hs[h].msg => hs[h].rid \notin DOMAIN rooms
        /\ (hs[h].pc = "create_insert" /\ hs'[h].pc # "create_insert")
               => /\ hs[h].rid \in DOMAIN rooms'
                  /\ heap'[rooms'[hs[h].rid]] =
                        [Id |-> hs[h].rid,
                         Name |-> IF "name" \in DOMAIN hs[h].msg THEN hs[h].msg.name ELSE None,
                         Creator |-> hs[h].from,
                         Clients |-> <<hs[h].from>>]
                  /\ hs'[h].room = rooms'[hs[h].rid]
        /\ (hs[h].pc = "create_reply" /\ hs'[h].pc # "create_reply")
               => /\ hs'[h].pc = "done"
                  /\ \A c \in Conns : c # hs[h].conn => out'[c] = out[c]
                  /\ out'[hs[h].conn] =
                        Append(out[hs[h].conn],
                               [type |-> "info", title |-> "room_created",
                                room |-> hs[h].rid,
                                name |-> heap[hs[h].room].Name,
                                clients |-> heap[hs[h].room].Clients])]_vars

\* a create_room that gave a name and no id has been answered with room_created,
\* and its room is registered under a generated id with the sender in it
NamedRoomCreated ==
    \E h \in HandlersOf("create_room") :
        /\ hs[h].pc = "done" /\ "room" \notin DOMAIN hs[h].msg
        /\ hs[h].rid \in DOMAIN rooms
        /\ Members(hs[h].rid) = <<hs[h].from>>
        /\ \E k \in 1..Len(out[hs[h].conn]) :
              /\ out[hs[h].conn][k].title = "room_created"
              /\ out[hs[h].conn][k].room = hs[h].rid
              /\ out[hs[h].conn][k].name = RoomName

\* the client_details frames written to connection i
Details(i) == {k \in 1..Len(out[i]) : out[i][k].title = "client_details"}

\* C17: a connection that has been greeted holds exactly one client_details
\* frame, an info frame carrying the id under which its client was registered;
\* one that has not holds none; and no frame has been read from a connection
\* that has not been greeted.
GreetedOnceBeforeReading ==
    ~crashed =>
        \A i \in Conns :
            /\ Cardinality(Details(i)) = IF cpc[i] \in {"idle", "reg", "hello"} THEN 0 ELSE 1
            /\ \A k \in Details(i) : out[i][k].type = "info" /\ out[i][k].id = cid[i]
            /\ cpc[i] = "open" => cid[i] \in DOMAIN clients /\ clients[cid[i]] = i
            /\ (\E h \in 1..Len(hs) : hs[h].conn = i) => Details(i) # {}

\* both clients have been greeted, one has sent a frame and has since got
\* another frame
GreetedAndServed ==
    /\ \A i \in Conns : Details(i) # {}
    /\ \E h \in 1..Len(hs) : hs[h].conn = 1 /\ hs[h].pc = "done"
    /\ Len(out[1]) > 1

\* a connect request that carries a session description and a candidate in data
Complete(msg) ==
    /\ "data" \in DOMAIN msg
    /\ "sdp" \in DOMAIN msg.data /\ "candidate" \in DOMAIN msg.data

\* C18: a connect handler that finds its target goes on to send the offer
\* exactly when the request's data carries both sdp and candidate; and the offer
\* of such a request is one frame, written to the target's connection alone,
\* that carries the sender's id and the request's sdp and candidate.
ConnectOffers ==
    [][\A h \in HandlersOf("connect") : ~crashed' =>
        /\ (/\ hs[h].pc = "connect_lookup" /\ hs'[h].pc # "connect_lookup"
            /\ hs[h].msg.to \in DOMAIN clients)
               => (hs'[h].pc = "connect_send" <=> Complete(hs[h].msg))
        /\ (/\ hs[h].pc = "connect_send" /\ hs'[h].pc # "connect_send"
            /\ Complete(hs[h].msg))
               => /\ \A c \in Conns : c # hs[h].target => out'[c] = out[c]
                  /\ out'[hs[h].target] =
                        Append(out[hs[h].target],
                               [type |-> "info", title |-> "offer",
                                data |-> [type |-> "offer", from |-> hs[h].from,
                                          sdp |-> hs[h].msg.data.sdp,
                                          candidate |-> hs[h].msg.data.candidate]])]_vars

\* the frame types the server handles
KnownTypes ==
    {"connect", "create_room", "join_room", "leave_room", "end_room",
     "offer", "answer", "candidate", "message"}

\* C19: the handler of a frame of any other type is finished as soon as it is
\* dispatched, and the step that reads and dispatches the frame writes to no
\* connection and changes neither the clients map, the rooms map nor any room.
IgnoresUnknownTypes ==
    [][\A h \in 1..Len(hs') :
        hs'[h].msg.type \notin KnownTypes =>
            /\ hs'[h].pc = "done"
            /\ h > Len(hs) => /\ out' = out /\ clients' = clients
                              /\ rooms' = rooms /\ heap' = heap]_vars

\* a frame of an unknown type addressed to another registered client has been
\* handled and that client has been written nothing but its client_details
UnknownFrameDropped ==
    \E h \in 1..Len(hs) :
        /\ hs[h].msg.type \notin KnownTypes /\ hs[h].pc = "done"
        /\ "to" \in DOMAIN hs[h].msg /\ hs[h].msg.to \in DOMAIN clients
        /\ clients[hs[h].msg.to] # hs[h].conn
        /\ Len(out[clients[hs[h].msg.to]]) = 1

\* the ids a removal may be asked for
SomeIds == {cid[i] : i \in Conns} \cup {Ghost, R1}

\* C20: deleting from the clients map an id it does not hold, removing from a
\* room an id that is not among its members, and deleting from the rooms map an
\* id it does not hold change nothing; and a client's disconnect cleanup run a
\* second time leaves the maps and the rooms as the first run left them.
RemovalsIdempotent ==
    /\ \A x \in SomeIds \ DOMAIN clients : MapDelete(clients, x) = clients
    /\ \A x \in SomeIds \ DOMAIN rooms : MapDelete(rooms, x) = rooms
    /\ \A r \in DOMAIN rooms : \A x \in SomeIds :
          ~Contains(Members(r), x) => RemoveClient(heap[rooms[r]], x) = heap[rooms[r]]
    /\ \A x \in DOMAIN clients :
          LET once == RunCleanup(rooms, heap, clients, x)
          IN  RunCleanup(once.rooms, once.heap, once.clients, x) = once

\* C21: every read and every write of the clients map, of the rooms map and of
\* a room's member sequence is made by a goroutine that holds the mutex, so a
\* map or a member sequence is never read or written while another goroutine
\* writes it.
LockedAccessOnly ==
    ~crashed =>
        /\ \A h \in 1..Len(hs) :
               hs[h].pc \in RoomsReadPcs \cup ClientsReadPcs \cup RoomsWritePcs
                            \cup MembersReadPcs \cup MembersWritePcs
                   => mu = h
        /\ \A i \in Conns :
               cpc[i] \in {"reg", "dc_range", "dc_notify", "dc_remove", "dc_len",
                           "dc_delete", "dc_cdel"}
                   => mu = Me(i)
        /\ ~(WritingRooms /\ ReadingRooms)
        /\ ~(WritingClients /\ ReadingClients)

\* A rooms map read in progress without the mutex while a write holds it.
RacingMapAccess == ~crashed /\ WritingRooms /\ ReadingRooms

\* C22: when the AddClient of a join_room runs, the room id the join checked
\* is still in the rooms map: no client id is appended to a room that has been
\* removed from the map since the join's existence check.
JoinOnRegisteredRoom ==
    [][\A h \in 1..Len(hs) :
          (~crashed' /\ hs[h].pc = "join_add" /\ hs'[h].pc = "join_notify")
              => hs[h].rid \in DOMAIN rooms]_vars

\* C23: neither a leave_room nor the disconnect cleanup deletes a rooms map
\* entry whose room has members: when one of them runs its delete(rooms, id),
\* the room registered under the id, if there is one, has no member.
OnlyEndRoomDeletesOccupied ==
    [][~crashed' =>
          /\ \A h \in 1..Len(hs) :
                 (hs[h].pc = "leave_delete" /\ hs'[h].pc = "done"
                      /\ hs[h].rid \in DOMAIN rooms)
                     => Len(Members(hs[h].rid)) = 0
          /\ \A i \in Conns :
                 (cpc[i] = "dc_delete" /\ cpc'[i] = "dc_range"
                      /\ heap[cl[i].item].Id \in DOMAIN rooms)
                     => Len(Members(heap[cl[i].item].Id)) = 0]_vars

\* C24: a join_room, leave_room or end_room handler that is past the room
\* lookup of checkRoomInJSON finds the room id in the rooms map at each of its
\* later reads of the map, so that no handler dereferences a missing room.
RoomStillFound ==
    \A h \in 1..Len(hs) :
        hs[h].pc \in {"end_get", "join_get", "leave_get", "rm_get",
                      "end_notify", "join_notify", "rm_notify"}
            => hs[h].rid \in DOMAIN rooms

\* handler h is the only goroutine that is in the middle of something
OnlyRunning(h) ==
    /\ \A g \in 1..Len(hs) : g # h => hs[g].pc = "done"
    /\ \A i \in Conns : cpc[i] \in {"idle", "open", "closed"}

\* C25: the fan-out of a handler for a room id that is not in the rooms map
\* writes no frame, changes neither map and no room, and returns: the handler
\* goes on and the process lives.
FanOutOfMissingRoomReturns ==
    [][\A h \in 1..Len(hs) :
          (/\ hs[h].pc \in {"end_notify", "join_notify", "rm_notify"}
           /\ hs[h].rid \notin DOMAIN rooms
           /\ OnlyRunning(h)
           /\ (crashed' \/ (Len(hs') = Len(hs) /\ hs'[h] # hs[h])))
              => /\ ~crashed'
                 /\ out' = out /\ clients' = clients /\ rooms' = rooms /\ heap' = heap
                 /\ hs'[h].pc \notin {"end_notify", "join_notify", "rm_notify"}]_vars

\* C26: the goroutine that writes a frame to a connection does not hold the
\* mutex when it writes: every WriteJSON is made after the mu.Unlock() of the
\* critical section before it.
NoSendUnderLock ==
    [][(~crashed' /\ out' # out)
          => /\ \A h \in 1..Len(hs) : hs'[h] # hs[h] => mu # h
             /\ \A i \in Conns : cpc'[i] # cpc[i] => mu # Me(i)]_vars

\* A join_room has appended under the mutex and fanned its update out, and
\* another goroutine holds the mutex.
FanOutBesideLockHolder ==
    /\ mu # None
    /\ \E h \in 1..Len(hs) :
           /\ hs[h].msg.type = "join_room" /\ hs[h].pc = "done"
           /\ \E k \in 1..Len(out[hs[h].conn]) :
                  /\ out[hs[h].conn][k].title = "client added"
                  /\ Contains(out[hs[h].conn][k].clients, hs[h].from)

\* the positions inside a critical section
InsidePcs == {Locked(p) : p \in LockPcs}
CInsidePcs == {"reg"} \cup {CLocked(p) : p \in CLockPcs}
CleanupPcs ==
    {"dc_range", "dc_notify", "dc_len"} \cup CLockPcs \cup {CLocked(p) : p \in CLockPcs}

\* every handler started has ended and no cleanup is under way
Settled ==
    /\ \A h \in 1..Len(hs) : hs[h].pc = "done"
    /\ \A i \in Conns : cpc[i] \notin CleanupPcs

\* C27: the mutex is held exactly by a goroutine inside a critical section,
\* so no goroutine calls mu.Lock() while holding it, and the step a holder
\* takes releases it; with goroutines scheduled fairly the server comes again
\* and again to a state where every handler started has ended and every
\* disconnect cleanup has ended, so none of them waits for the mutex forever.
LockAlwaysReleased ==
    /\ [](~crashed =>
            /\ \A h \in 1..Len(hs) : (mu = h) <=> (hs[h].pc \in InsidePcs)
            /\ \A i \in Conns : (mu = Me(i)) <=> (cpc[i] \in CInsidePcs)
            /\ mu > 0 => mu <= Len(hs))
    /\ [][(mu # None /\ mu' # mu) => mu' = None]_vars
    /\ []<>(crashed \/ Settled)

\* A handler waits in mu.Lock() while the disconnect cleanup holds the mutex.
WaitingForCleanup ==
    /\ mu < 0 /\ cpc[0 - mu] \in {"dc_remove", "dc_delete", "dc_cdel"}
    /\ \E h \in 1..Len(hs) : hs[h].pc \in LockPcs

\* C28: no step changes the creator of the room registered under an id that
\* is in the rooms map before and after the step.
CreatorNeverChanges ==
    [][\A r \in DOMAIN rooms \cap DOMAIN rooms' :
          heap'[rooms'[r]].Creator = heap[rooms[r]].Creator]_vars

\* how far the checks of the frame alone take a room request whose room id is
\* looked for in data.room
DataRoomChecked(m) ==
    IF "data" \notin DOMAIN m THEN "chk_missing"
    ELSE IF ~IsStr(m.data, "room") THEN "chk_missing"
    ELSE "chk_read"

\* C29: a join_room, leave_room or end_room request is checked in this order:
\* data is an object, data.room is a string, the room exists.  The first check
\* that fails sends its error (Missing fields, Missing fields, Invalid Room)
\* and ends the handler, which changes no map and no room.
ValidatedInOrder ==
    [][~crashed' =>
          /\ Len(hs') = Len(hs) + 1 =>
                LET m == hs'[Len(hs')].msg
                IN  m.type \in {"join_room", "leave_room", "end_room"}
                        => hs'[Len(hs')].pc = DataRoomChecked(m)
          /\ \A h \in 1..Len(hs) :
                (hs[h].pc \in {"chk_missing", "chk_invalid"} /\ hs'[h] # hs[h])
                    => /\ hs'[h].pc = "done"
                       /\ out'[hs[h].conn] =
                              Append(out[hs[h].conn],
                                     ErrorMessage(IF hs[h].pc = "chk_missing"
                                                  THEN "Missing fields"
                                                  ELSE "Invalid Room",
                                                  hs[h].rid))
                       /\ rooms' = rooms /\ heap' = heap /\ clients' = clients
          /\ \A h \in 1..Len(hs) :
                (hs[h].pc = "chk_read" /\ hs'[h] # hs[h])
                    => (hs'[h].pc = "chk_invalid") = (hs[h].rid \notin DOMAIN rooms)]_vars

\* The connections the next step of handler h, or of connection i's own
\* goroutine, calls WriteJSON on.  No write is made under the mutex or any
\* other lock, so two goroutines that are both about to write to one
\* connection may be inside its WriteJSON at the same time.
HandlerWritesTo(h) ==
    IF hs[h].pc \in {"create_dup", "create_reply", "chk_missing", "chk_invalid",
                     "end_unauth", "join_already", "leave_notfound", "relay_missing"}
        THEN {hs[h].conn}
    ELSE IF hs[h].pc \in {"relay_send", "connect_send"} THEN {hs[h].target}
    ELSE IF hs[h].pc \in {"end_notify", "join_notify", "rm_notify"}
                /\ hs[h].rid \in DOMAIN rooms
        THEN ConnsOf(Members(hs[h].rid))
    ELSE {}

ConnWritesTo(i) ==
    IF cpc[i] = "hello" THEN {i}
    ELSE IF cpc[i] = "dc_notify" /\ heap[cl[i].item].Id \in DOMAIN rooms
        THEN ConnsOf(Members(heap[cl[i].item].Id))
    ELSE {}

\* C30: the writes to one connection are serialised: no two goroutines are
\* about to write a frame to the same connection at the same time.
WritesSerialised ==
    /\ \A g, h \in 1..Len(hs) :
           g # h => HandlerWritesTo(g) \cap HandlerWritesTo(h) = {}
    /\ \A i \in Conns : \A h \in 1..Len(hs) :
           ConnWritesTo(i) \cap HandlerWritesTo(h) = {}
    /\ \A i, j \in Conns : i # j => ConnWritesTo(i) \cap ConnWritesTo(j) = {}

\* the frames a step appends to the frames written to connection c
Written(c) == SubSeq(out'[c], Len(out[c]) + 1, Len(out'[c]))

\* every frame the step writes is a `client removed` update that does not
\* list clientId, and none is written to connection c
RemovedLeftOut(clientId, c) ==
    /\ Written(c) = <<>>
    /\ \A d \in Conns : \A k \in 1..Len(Written(d)) :
           /\ Written(d)[k].title = "client removed"
           /\ ~Contains(Written(d)[k].clients, clientId)

\* C31: the `client removed` updates of a leave_room and of a disconnect
\* carry the members after the removal, without the removed client, and none
\* is written to the removed client.
ClientRemovedAfterRemoval ==
    [][~crashed' =>
          /\ \A h \in 1..Len(hs) :
                 (hs[h].pc = "rm_notify" /\ hs'[h].pc # "rm_notify")
                     => RemovedLeftOut(hs[h].from, hs[h].conn)
          /\ \A i \in Conns :
                 (cpc[i] = "dc_notify" /\ cpc'[i] = "dc_lock")
                     => RemovedLeftOut(cid[i], i)]_vars
====
